---- MODULE Spec2Model ----
(***************************************************************************)
(* Model of the gold-price dashboard (main.py): the fetch of the NBP gold  *)
(* price archive (get_gold_data), and the Dash callback render_content     *)
(* that turns the fetched frame into a chart, an analysis table or an      *)
(* error message.                                                          *)
(*                                                                         *)
(* Text that the code parses (the JSON strings "data" and "cena") is a     *)
(* sequence of one-character strings.  Prices are exact numbers counted in *)
(* hundredths of a zloty (grosze); the inputs have at most two fraction    *)
(* digits, as the prices the NBP quotes.  Where the binary floating-point  *)
(* representation decides the direction of round(x, 2) (x exactly half way *)
(* between two hundredths) both neighbours are possible results.           *)
(***************************************************************************)
EXTENDS Integers, Sequences, FiniteSets, TLC

VARIABLES
    tab,         \* value of dcc.Tabs 'tabs-1'
    start_date,  \* start_date of 'date-picker-range'
    end_date,    \* end_date of 'date-picker-range'
    upstream,    \* what the NBP endpoint answered to the latest GET
    httpGets,    \* number of requests.get calls issued so far
    df,          \* what get_gold_data returned (or raised) in the latest callback
    output       \* what render_content returned (or raised) in the latest callback

vars == <<tab, start_date, end_date, upstream, httpGets, df, output>>

\* Bounds of the model.
MaxItems  == 2    \* longest JSON array the endpoint answers with in Spec
MaxPrices == 4    \* longest price series in SpecStats
MaxGets   == 3    \* number of callbacks followed in one behaviour

----------------------------------------------------------------------------
(* JSON values of a response body *)

JString(chars) == [kind |-> "string", chars |-> chars, cents |-> 0]
JNumber(cents) == [kind |-> "number", chars |-> <<>>, cents |-> cents]
Absent         == [kind |-> "absent", chars |-> <<>>, cents |-> 0]

\* "2024-01-02", "2024-1-3", "2024-02-30", "100.01", "abc"
Jan02    == <<"2","0","2","4","-","0","1","-","0","2">>
Jan3     == <<"2","0","2","4","-","1","-","3">>
Feb30    == <<"2","0","2","4","-","0","2","-","3","0">>
Txt10001 == <<"1","0","0",".","0","1">>
TxtAbc   == <<"a","b","c">>

\* One element of the array: the values under the keys 'data' and 'cena'.
Item(d, c) == [data |-> d, cena |-> c]

ValidItems ==
    << Item(JString(Jan02), JNumber(24525)),
       Item(JString(Jan3),  JNumber(10000)),
       Item(JString(Jan3),  JString(Txt10001)) >>

\* What each element of ValidItems denotes, written out by hand:
\* <<year, month, day, price in hundredths>>.
Denotes ==
    << <<2024, 1, 2, 24525>>,
       <<2024, 1, 3, 10000>>,
       <<2024, 1, 3, 10001>> >>

MalformedItems ==
    { Item(JString(Jan02), Absent),            \* no 'cena' key
      Item(JString(Feb30), JNumber(10000)),    \* no such day
      Item(JString(Jan02), JString(TxtAbc)) }  \* price is not a number

Items == {ValidItems[i] : i \in 1..Len(ValidItems)} \cup MalformedItems

SeqsUpTo(S, n) == UNION {[1..k -> S] : k \in 0..n}

\* An HTTP exchange: the connection failed, the status was not 2xx, the body
\* was not JSON, the body was a JSON object, or the body was a JSON array.
Response(kind, items) == [kind |-> kind, items |-> items]

Failures == { Response("network", <<>>), Response("http", <<>>),
              Response("badjson", <<>>), Response("object", <<>>) }

Responses == Failures \cup {Response("array", its) : its \in SeqsUpTo(Items, MaxItems)}

----------------------------------------------------------------------------
(* datetime.strptime(text, '%Y-%m-%d').date() and float(value) *)

Digits == <<"0","1","2","3","4","5","6","7","8","9">>

IsDigit(c) == \E i \in 1..10 : Digits[i] = c

DigitVal(c) == (CHOOSE i \in 1..10 : Digits[i] = c) - 1

AllDigits(s) == \A i \in 1..Len(s) : IsDigit(s[i])

RECURSIVE ToNat(_)
ToNat(s) ==
    IF s = <<>> THEN 0
    ELSE 10 * ToNat(SubSeq(s, 1, Len(s) - 1)) + DigitVal(s[Len(s)])

IsLeap(y) == (y % 4 = 0 /\ y % 100 # 0) \/ y % 400 = 0

DaysInMonth(y, m) ==
    IF m = 2 THEN (IF IsLeap(y) THEN 29 ELSE 28)
    ELSE IF m \in {4, 6, 9, 11} THEN 30 ELSE 31

Ok(v)      == [ok |-> TRUE,  exc |-> "",  val |-> v]
Raise(exc) == [ok |-> FALSE, exc |-> exc, val |-> <<>>]

\* %Y is four digits, %m and %d one or two digits; the fields are then
\* range-checked by the date constructor.
strptime(s) ==
    LET dashes == {i \in 1..Len(s) : s[i] = "-"} IN
    IF Cardinality(dashes) # 2 THEN Raise("ValueError")
    ELSE
      LET i == CHOOSE k \in dashes : \A l \in dashes : k <= l
          j == CHOOSE k \in dashes : \A l \in dashes : k >= l
          y == SubSeq(s, 1, i - 1)
          m == SubSeq(s, i + 1, j - 1)
          d == SubSeq(s, j + 1, Len(s))
      IN IF /\ Len(y) = 4 /\ AllDigits(y) /\ ToNat(y) >= 1
            /\ Len(m) \in 1..2 /\ AllDigits(m) /\ ToNat(m) \in 1..12
            /\ Len(d) \in 1..2 /\ AllDigits(d)
            /\ ToNat(d) \in 1..DaysInMonth(ToNat(y), ToNat(m))
         THEN Ok(<<ToNat(y), ToNat(m), ToNat(d)>>)
         ELSE Raise("ValueError")

\* float() of decimal text with at most two fraction digits, in hundredths.
FloatOfText(s) ==
    LET dots == {i \in 1..Len(s) : s[i] = "."} IN
    IF Cardinality(dots) > 1 THEN Raise("ValueError")
    ELSE
      LET p    == IF dots = {} THEN Len(s) + 1 ELSE CHOOSE k \in dots : TRUE
          int  == SubSeq(s, 1, p - 1)
          frac == SubSeq(s, p + 1, Len(s))
      IN IF AllDigits(int) /\ AllDigits(frac) /\ Len(int) + Len(frac) > 0
            /\ Len(frac) <= 2
         THEN Ok(100 * ToNat(int)
                 + (IF Len(frac) = 1 THEN 10 * ToNat(frac) ELSE ToNat(frac)))
         ELSE Raise("ValueError")

\* item['data'] then strptime: a missing key is a KeyError, a value that is
\* not a string a TypeError.
DateOf(item) ==
    IF item.data.kind = "absent" THEN Raise("KeyError")
    ELSE IF item.data.kind # "string" THEN Raise("TypeError")
    ELSE strptime(item.data.chars)

\* item['cena'] then float.
PriceOf(item) ==
    IF item.cena.kind = "absent" THEN Raise("KeyError")
    ELSE IF item.cena.kind = "number" THEN Ok(item.cena.cents)
    ELSE IF item.cena.kind = "string" THEN FloatOfText(item.cena.chars)
    ELSE Raise("TypeError")

\* pd.to_datetime of a date: the timestamp of its midnight.
to_datetime(d) == [year |-> d[1], month |-> d[2], day |-> d[3], hour |-> 0, minute |-> 0]

----------------------------------------------------------------------------
(* get_gold_data *)

None         == [kind |-> "None",   exc |-> "",  rows |-> <<>>]
Frame(rows)  == [kind |-> "frame",  exc |-> "",  rows |-> rows]
Raised(exc)  == [kind |-> "raised", exc |-> exc, rows |-> <<>>]

\* Variant of the loop that puts each new row in front of the earlier ones.
RECURSIVE ProcessItemsPrepending(_, _, _)
ProcessItemsPrepending(items, k, acc) ==
    IF k > Len(items) THEN Frame(acc)
    ELSE LET d == DateOf(items[k])
             p == PriceOf(items[k])
         IN IF ~d.ok THEN Raised(d.exc)
            ELSE IF ~p.ok THEN Raised(p.exc)
            ELSE ProcessItemsPrepending(items, k + 1,
                     <<[Date |-> to_datetime(d.val), Price |-> p.val]>> \o acc)

\* The for loop over the parsed array, from element k on: rows collected so
\* far are in acc; the first element that cannot be converted raises.
RECURSIVE ProcessItems(_, _, _)
ProcessItems(items, k, acc) ==
    IF k > Len(items) THEN Frame(acc)
    ELSE LET d == DateOf(items[k])
             p == PriceOf(items[k])
         IN IF ~d.ok THEN Raised(d.exc)
            ELSE IF ~p.ok THEN Raised(p.exc)
            ELSE ProcessItems(items, k + 1,
                     Append(acc, [Date |-> to_datetime(d.val), Price |-> p.val]))

\* The try block: requests.get, raise_for_status and response.json raise
\* subclasses of RequestException, which the except clause turns into None;
\* iterating a JSON object yields its keys, and indexing a key by 'data' is
\* a TypeError.
get_gold_data(response) ==
    IF response.kind \in {"network", "http", "badjson"} THEN None
    ELSE IF response.kind = "object" THEN Raised("TypeError")
    ELSE ProcessItems(response.items, 1, <<>>)

----------------------------------------------------------------------------
(* Statistics of the 'Price' column, in hundredths *)

Number(c) == [nan |-> FALSE, cents |-> c]
NaN       == [nan |-> TRUE,  cents |-> 0]

\* The price series the statistics are drawn from in SpecStats.
Prices == {10000, 20000, 30000, 40000, 10001}

PriceColumn(frame) == [i \in 1..Len(frame.rows) |-> frame.rows[i].Price]

RECURSIVE Sum(_)
Sum(xs) == IF xs = <<>> THEN 0 ELSE xs[1] + Sum(Tail(xs))

Sorted(xs) == SortSeq(xs, LAMBDA a, b : a < b)

\* round(num/den, 2) of a non-negative quotient counted in hundredths: the
\* nearest hundredth, either neighbour when num/den is exactly half way.
Round2(num, den) ==
    LET q == num \div den
        r == num % den
    IN IF 2 * r < den THEN {q}
       ELSE IF 2 * r > den THEN {q + 1}
       ELSE {q, q + 1}

\* Series.mean(): sum over count, NaN for an empty series.
Mean(xs) ==
    IF xs = <<>> THEN {NaN}
    ELSE {Number(v) : v \in Round2(Sum(xs), Len(xs))}

\* Series.min() and Series.max().
Min(xs) ==
    IF xs = <<>> THEN NaN
    ELSE Number(CHOOSE v \in {xs[i] : i \in 1..Len(xs)} :
                    \A i \in 1..Len(xs) : v <= xs[i])

Max(xs) ==
    IF xs = <<>> THEN NaN
    ELSE Number(CHOOSE v \in {xs[i] : i \in 1..Len(xs)} :
                    \A i \in 1..Len(xs) : v >= xs[i])

\* Variant of the quantile that takes the sorted value below the rank.
QuantileLower(xs, k) ==
    IF xs = <<>> THEN {NaN}
    ELSE {Number(Sorted(xs)[((k * (Len(xs) - 1)) \div 4) + 1])}

\* Series.quantile(k/4), interpolation 'linear': the sorted value at rank
\* k*(N-1)/4, its fraction taken between that value and the next one.
Quantile(xs, k) ==
    IF xs = <<>> THEN {NaN}
    ELSE LET srt   == Sorted(xs)
             rank4 == k * (Len(xs) - 1)
             lo    == rank4 \div 4
             fr    == rank4 % 4
             lower == srt[lo + 1]
             upper == srt[IF fr = 0 THEN lo + 1 ELSE lo + 2]
         IN {Number(v) : v \in Round2(4 * lower + fr * (upper - lower), 4)}

\* The elements of a finite set of numbers, smallest first.
RECURSIVE Ascending(_)
Ascending(S) ==
    IF S = {} THEN <<>>
    ELSE LET least == CHOOSE v \in S : \A w \in S : v <= w
         IN <<least>> \o Ascending(S \ {least})

\* Variant of the mode that takes the first of the most frequent values in
\* the order of the series.
ModeUnsorted(xs) ==
    LET Count(v) == Cardinality({i \in 1..Len(xs) : xs[i] = v})
    IN SelectSeq(xs, LAMBDA v : \A i \in 1..Len(xs) : Count(xs[i]) <= Count(v))

\* Series.mode(): the values of the highest count, in ascending order.
Mode(xs) ==
    LET vals     == {xs[i] : i \in 1..Len(xs)}
        Count(v) == Cardinality({i \in 1..Len(xs) : xs[i] = v})
    IN Ascending({v \in vals : \A w \in vals : Count(w) <= Count(v)})

RECURSIVE IsqrtBetween(_, _, _)
IsqrtBetween(n, lo, hi) ==
    IF lo = hi THEN lo
    ELSE LET mid == (lo + hi + 1) \div 2
         IN IF mid * mid <= n THEN IsqrtBetween(n, mid, hi)
            ELSE IsqrtBetween(n, lo, mid - 1)

\* Largest s with s*s <= n.
Isqrt(n) == IsqrtBetween(n, 0, 46340)

\* The squared differences of the pairs (i, j), i < j, of the series, from
\* the pair (i, j) on: their sum is N times the sum of squared deviations
\* from the mean.
RECURSIVE PairSquaresFrom(_, _, _)
PairSquaresFrom(xs, i, j) ==
    IF i >= Len(xs) THEN <<>>
    ELSE IF j > Len(xs) THEN PairSquaresFrom(xs, i + 1, i + 2)
    ELSE <<(xs[i] - xs[j]) * (xs[i] - xs[j])>> \o PairSquaresFrom(xs, i, j + 1)

PairSquares(xs) == PairSquaresFrom(xs, 1, 2)

\* Series.std(), ddof=1: the square root of the sum of squared deviations
\* over N-1, NaN when there are fewer than two values.  With D = N*(N-1)
\* the variance is Sum(PairSquares)/D; the quotient is taken term by term.
Std(xs) ==
    IF Len(xs) < 2 THEN {NaN}
    ELSE LET D     == Len(xs) * (Len(xs) - 1)
             sq    == PairSquares(xs)
             quots == [n \in 1..Len(sq) |-> sq[n] \div D]
             rems  == [n \in 1..Len(sq) |-> sq[n] % D]
             Q     == Sum(quots) + (Sum(rems) \div D)
             R     == Sum(rems) % D
             four  == 4 * Q + ((4 * R) \div D)       \* floor of 4 * variance
             exact == (4 * R) % D = 0
             s     == Isqrt(four)                   \* floor of 2 * deviation
         IN IF s % 2 = 0 THEN {Number(s \div 2)}
            ELSE IF exact /\ s * s = four THEN {Number(s \div 2), Number((s \div 2) + 1)}
            ELSE {Number((s \div 2) + 1)}

----------------------------------------------------------------------------
(* render_content *)

\* The static mapping from statistic name to its description.
definitions ==
    [ n \in { "Average Price", "Minimum Price", "Maximum Price", "First Quartile",
              "Median", "Third Quartile", "Mode", "Standard Deviation",
              "Interquartile Range" } |->
      CASE n = "Average Price"  -> "The arithmetic mean of gold prices over a given period."
        [] n = "Minimum Price"  -> "The lowest gold price over a given period."
        [] n = "Maximum Price"  -> "The highest gold price over a given period."
        [] n = "First Quartile" -> "The value below which 25% of the lowest prices are found."
        [] n = "Median" -> "The middle value separating the lower half from the upper half of the data."
        [] n = "Third Quartile" -> "The value below which 75% of the lowest prices are found."
        [] n = "Mode" -> "The value that appears most frequently in the dataset."
        [] n = "Standard Deviation" -> "A measure of data dispersion around the mean value."
        [] n = "Interquartile Range" -> "The difference between the third and first quartile, indicating data dispersion." ]

\* What a call of the callback comes to: a returned list of components, an
\* exception that leaves the callback, or the None of a function that ends
\* without a return statement.
NotCalled         == [kind |-> "initial", exc |-> "",  children |-> <<>>]
Returned(divs)    == [kind |-> "list",    exc |-> "",  children |-> divs]
Propagated(exc)   == [kind |-> "raised",  exc |-> exc, children |-> <<>>]
ReturnedNone      == [kind |-> "None",    exc |-> "",  children |-> <<>>]

\* html.Div([html.P('Error fetching data. Please try again later.')])
ErrorDiv ==
    [ kind |-> "error", text |-> "Error fetching data. Please try again later.",
      img |-> <<>>, period |-> <<>>, lines |-> <<>>, table |-> <<>> ]

\* The Div of the 'gold' tab: one image, the plotted line being the rows of
\* the frame, and the four paragraphs under it.
ChartDiv(frame, s, e, avg_price, max_price, min_price) ==
    [ kind |-> "chart", text |-> "",
      img |-> << [i \in 1..Len(frame.rows) |-> <<frame.rows[i].Date, frame.rows[i].Price>>] >>,
      period |-> <<s, e>>,
      lines |-> << <<"Average Price", avg_price>>,
                   <<"Maximum Price", max_price>>,
                   <<"Minimum Price", min_price>> >>,
      table |-> <<>> ]

\* Variant of the table whose Value column lists the quartiles in the
\* opposite order.
StatsTableSwapped(avg_price, min_price, max_price, q1, q2, q3, mode, std_dev, iqr) ==
    LET Statistic  == << "Average Price", "Minimum Price", "Maximum Price",
                         "First Quartile", "Median", "Third Quartile", "Mode",
                         "Standard Deviation", "Interquartile Range" >>
        Value      == << avg_price, min_price, max_price, q3, q2, q1, mode,
                         std_dev, iqr >>
    IN [i \in 1..Len(Statistic) |-> <<Statistic[i], Value[i], definitions[Statistic[i]]>>]

\* stats_df and the Tbody made of it: row i holds the i-th entry of each of
\* the three columns.
StatsTable(avg_price, min_price, max_price, q1, q2, q3, mode, std_dev, iqr) ==
    LET Statistic  == << "Average Price", "Minimum Price", "Maximum Price",
                         "First Quartile", "Median", "Third Quartile", "Mode",
                         "Standard Deviation", "Interquartile Range" >>
        Value      == << avg_price, min_price, max_price, q1, q2, q3, mode,
                         std_dev, iqr >>
        Definition == << definitions["Average Price"], definitions["Minimum Price"],
                         definitions["Maximum Price"], definitions["First Quartile"],
                         definitions["Median"], definitions["Third Quartile"],
                         definitions["Mode"], definitions["Standard Deviation"],
                         definitions["Interquartile Range"] >>
    IN [i \in 1..Len(Statistic) |-> <<Statistic[i], Value[i], Definition[i]>>]

\* The Div of the 'analysis' tab.
AnalysisDiv(s, e, rows) ==
    [ kind |-> "table", text |-> "Gold Price Analysis",
      img |-> <<>>, period |-> <<s, e>>, lines |-> <<>>, table |-> rows ]

\* The 'gold' branch.
ChartReturns(s, e, frame) ==
    LET xs == PriceColumn(frame)
    IN { Returned(<< ChartDiv(frame, s, e, avg_price, Max(xs), Min(xs)) >>) :
             avg_price \in Mean(xs) }

\* The 'analysis' branch; mode()[0] of an empty series is a KeyError.
AnalysisReturns(s, e, frame) ==
    LET xs == PriceColumn(frame)
    IN IF xs = <<>> THEN {Propagated("KeyError")}
       ELSE { Returned(<< AnalysisDiv(s, e,
                  StatsTable(avg_price, Min(xs), Max(xs), q1, q2, q3,
                             Number(Mode(xs)[1]), std_dev,
                             Number(q3.cents - q1.cents))) >>) :
                  avg_price \in Mean(xs), q1 \in Quantile(xs, 1),
                  q2 \in Quantile(xs, 2), q3 \in Quantile(xs, 3),
                  std_dev \in Std(xs) }

\* Variant of the body that looks at the tab before it looks for None:
\* subscripting None is a TypeError.
RenderTabFirst(t, s, e, frame) ==
    IF frame.kind = "raised" THEN {Propagated(frame.exc)}
    ELSE IF t = "gold" /\ frame.kind = "None" THEN {Propagated("TypeError")}
    ELSE IF t = "gold" THEN ChartReturns(s, e, frame)
    ELSE IF frame.kind = "None" THEN {Returned(<<ErrorDiv>>)}
    ELSE IF t = "analysis" THEN AnalysisReturns(s, e, frame)
    ELSE {ReturnedNone}

\* The body of render_content after the fetch: the possible results for a
\* tab, a date range and the result of get_gold_data.
Render(t, s, e, frame) ==
    IF frame.kind = "raised" THEN {Propagated(frame.exc)}
    ELSE IF frame.kind = "None" THEN {Returned(<<ErrorDiv>>)}
    ELSE IF t = "gold" THEN ChartReturns(s, e, frame)
    ELSE IF t = "analysis" THEN AnalysisReturns(s, e, frame)
    ELSE {ReturnedNone}

\* Variant of the callback that keeps the frame of the previous call when
\* the date range is the one of the previous call.
render_content_cached(t, s, e, r) ==
    IF output.kind # "initial" /\ s = start_date /\ e = end_date
    THEN /\ httpGets < MaxGets
         /\ output' \in Render(t, s, e, df)
         /\ tab' = t
         /\ UNCHANGED <<start_date, end_date, upstream, httpGets, df>>
    ELSE /\ httpGets < MaxGets
         /\ httpGets' = httpGets + 1
         /\ upstream' = r
         /\ df' = get_gold_data(r)
         /\ output' \in Render(t, s, e, get_gold_data(r))
         /\ tab' = t
         /\ start_date' = s
         /\ end_date' = e

\* One run of the callback for inputs (t, s, e), the endpoint answering r.
render_content(t, s, e, r) ==
    /\ httpGets < MaxGets
    /\ httpGets' = httpGets + 1
    /\ upstream' = r
    /\ df' = get_gold_data(r)
    /\ output' \in Render(t, s, e, get_gold_data(r))
    /\ tab' = t
    /\ start_date' = s
    /\ end_date' = e

----------------------------------------------------------------------------
(* The user interface *)

Tabs == {"gold", "analysis"}

\* Ranges the date picker is set to; the first is the one of the layout.
DateRanges == { <<"2024-01-01", "2024-06-30">>, <<"2024-02-01", "2024-02-29">> }

NoResponse == Response("none", <<>>)

Init ==
    /\ tab = "gold"
    /\ start_date = "2024-01-01"
    /\ end_date = "2024-06-30"
    /\ upstream = NoResponse
    /\ httpGets = 0
    /\ df = None
    /\ output = NotCalled

\* Dash runs the callback once when the page is loaded.
PageLoad ==
    /\ output = NotCalled
    /\ \E r \in Responses : render_content(tab, start_date, end_date, r)

\* The user selects the other tab.
SelectTab(t) ==
    /\ output # NotCalled
    /\ t # tab
    /\ \E r \in Responses : render_content(t, start_date, end_date, r)

\* The user picks another date range.
SelectDates(s, e) ==
    /\ output # NotCalled
    /\ <<s, e>> # <<start_date, end_date>>
    /\ \E r \in Responses : render_content(tab, s, e, r)

Next ==
    \/ PageLoad
    \/ \E t \in Tabs : SelectTab(t)
    \/ \E d \in DateRanges : SelectDates(d[1], d[2])

Spec == Init /\ [][Next]_vars

(* The statistics on their own: the page is loaded with a well-formed series
   of up to MaxPrices prices, and the endpoint keeps answering with it. *)

SeriesResponses ==
    { Response("array", [i \in 1..Len(ps) |-> Item(JString(Jan02), JNumber(ps[i]))]) :
          ps \in SeqsUpTo(Prices, MaxPrices) }

LoadSeries ==
    /\ output = NotCalled
    /\ \E r \in SeriesResponses : render_content(tab, start_date, end_date, r)

SwitchTab(t) ==
    /\ output # NotCalled
    /\ t # tab
    /\ render_content(t, start_date, end_date, upstream)

NextStats ==
    \/ LoadSeries
    \/ \E t \in Tabs : SwitchTab(t)

SpecStats == Init /\ [][NextStats]_vars

----------------------------------------------------------------------------
(* Properties *)

Called == output # NotCalled

TheRender == output.children[1]

ShowsTable == output.kind = "list" /\ TheRender.kind = "table"

\* The fetch failed: no connection, a status that is not 2xx, a body that is
\* not JSON, or a body that is not an array of complete {data, cena} records.
FetchFailed(r) ==
    \/ r.kind \in {"network", "http", "badjson", "object"}
    \/ r.kind = "array" /\ \E i \in 1..Len(r.items) : r.items[i] \in MalformedItems

WellFormed(r) ==
    r.kind = "array" /\
    \A i \in 1..Len(r.items) : \E n \in 1..Len(ValidItems) : r.items[i] = ValidItems[n]

\* C1: for every failure of the fetch step (network failure, non-2xx
\* response, malformed body) get_gold_data returns None and nothing is
\* raised to render_content.
C1_FetchFailureYieldsNone ==
    (Called /\ FetchFailed(upstream)) => (df = None /\ output.kind # "raised")

\* C2: whenever get_gold_data returned None the callback returns the error
\* message and nothing else, on either tab: no image, no statistics
\* paragraphs, no table, no exception.
C2_NoDataRendersErrorOnly ==
    (Called /\ df = None) =>
        /\ output.kind = "list"
        /\ Len(output.children) = 1
        /\ TheRender.kind = "error"
        /\ TheRender.text = "Error fetching data. Please try again later."
        /\ TheRender.img = <<>>
        /\ TheRender.lines = <<>>
        /\ TheRender.table = <<>>

\* No data was fetched for a second call, made on the 'analysis' tab.
C2_Witness ==
    /\ Called /\ df = None /\ tab = "analysis" /\ httpGets = 2
    /\ upstream.kind = "http"
    /\ output.kind = "list" /\ TheRender.kind = "error"

\* C3: for a body that is an array of N well-formed records the frame has
\* exactly N rows, row i carrying the date and the price record i denotes,
\* in the order of the array.
C3_OneRowPerRecordInOrder ==
    (Called /\ WellFormed(upstream)) =>
        /\ df.kind = "frame"
        /\ Len(df.rows) = Len(upstream.items)
        /\ \A i \in 1..Len(upstream.items) :
              LET k == CHOOSE n \in 1..Len(ValidItems) : ValidItems[n] = upstream.items[i]
              IN /\ df.rows[i].Date.year  = Denotes[k][1]
                 /\ df.rows[i].Date.month = Denotes[k][2]
                 /\ df.rows[i].Date.day   = Denotes[k][3]
                 /\ df.rows[i].Price      = Denotes[k][4]

\* Two well-formed records arrived, the later date first, and were kept so.
C3_Witness ==
    /\ Called
    /\ upstream = Response("array", <<ValidItems[3], ValidItems[1]>>)
    /\ df.kind = "frame" /\ Len(df.rows) = 2
    /\ df.rows[1].Price = 10001 /\ df.rows[2].Price = 24525

\* C4: when the price series is empty the statistics signal an error on
\* both tabs, and no NaN or zero statistics are rendered.
C4_EmptySeriesSignalsError ==
    (Called /\ df.kind = "frame" /\ df.rows = <<>>) =>
        \/ output.kind = "raised"
        \/ output.kind = "list" /\ TheRender.kind = "error"

\* C5: a change of tab with the date range unchanged issues no new GET.
C5_TabSwitchIssuesNoGet ==
    [][(tab' # tab /\ start_date' = start_date /\ end_date' = end_date)
           => httpGets' = httpGets]_vars

\* C5, as the code has it: a change of tab with the date range unchanged
\* issues exactly one new GET, and the frame of that call is the one made of
\* the new answer.
C5_TabSwitchFetchesAgain ==
    [][(tab' # tab /\ start_date' = start_date /\ end_date' = end_date)
           => (httpGets' = httpGets + 1 /\ df' = get_gold_data(upstream'))]_vars

\* The tab was switched once after the page load, the dates untouched.
C5_Witness ==
    /\ tab = "analysis" /\ httpGets = 2
    /\ start_date = "2024-01-01" /\ end_date = "2024-06-30"

\* C6: the analysis table has nine rows in the order Average, Minimum,
\* Maximum, Q1, Median, Q3, Mode, Standard Deviation, IQR, each row holding
\* the value of its own statistic and its own entry of definitions.
C6_NineRowsEachWithItsOwn ==
    ShowsTable =>
        LET rows == TheRender.table
            xs   == PriceColumn(df)
        IN /\ Len(rows) = 9
           /\ [i \in 1..9 |-> rows[i][1]] =
                  << "Average Price", "Minimum Price", "Maximum Price",
                     "First Quartile", "Median", "Third Quartile", "Mode",
                     "Standard Deviation", "Interquartile Range" >>
           /\ \A i \in 1..9 : rows[i][3] = definitions[rows[i][1]]
           /\ \A i, j \in 1..9 : i # j => rows[i][3] # rows[j][3]
           /\ rows[1][2] \in Mean(xs)
           /\ rows[2][2] = Min(xs)
           /\ rows[3][2] = Max(xs)
           /\ rows[4][2] \in Quantile(xs, 1)
           /\ rows[5][2] \in Quantile(xs, 2)
           /\ rows[6][2] \in Quantile(xs, 3)
           /\ rows[7][2] = Number(Mode(xs)[1])
           /\ rows[8][2] \in Std(xs)
           /\ rows[9][2] = Number(rows[6][2].cents - rows[4][2].cents)

\* A table whose minimum, first quartile, third quartile and maximum all
\* differ.
C6_Witness ==
    /\ ShowsTable
    /\ TheRender.table[2][2].cents < TheRender.table[4][2].cents
    /\ TheRender.table[4][2].cents < TheRender.table[6][2].cents
    /\ TheRender.table[6][2].cents < TheRender.table[3][2].cents

\* C7: the reported mode occurs in the series as often as any value does,
\* and is the smallest of the values that occur that often.
C7_ModeIsSmallestMostFrequent ==
    ShowsTable =>
        LET xs       == PriceColumn(df)
            Count(v) == Cardinality({i \in 1..Len(xs) : xs[i] = v})
            mode     == TheRender.table[7][2]
        IN /\ ~mode.nan
           /\ Count(mode.cents) > 0
           /\ \A i \in 1..Len(xs) :
                 /\ Count(xs[i]) <= Count(mode.cents)
                 /\ Count(xs[i]) = Count(mode.cents) => mode.cents <= xs[i]

\* Two values occur twice each, the larger of them first in the series.
C7_Witness ==
    /\ ShowsTable
    /\ PriceColumn(df) = <<30000, 10001, 30000, 10001>>
    /\ TheRender.table[7][2] = Number(10001)

\* The j-th smallest value of a series, by counting.
OrderStatistic(xs, j) ==
    CHOOSE v \in {xs[i] : i \in 1..Len(xs)} :
        /\ Cardinality({i \in 1..Len(xs) : xs[i] < v}) < j
        /\ Cardinality({i \in 1..Len(xs) : xs[i] <= v}) >= j

\* v is the hundredth nearest to the value at rank k/4 * (N-1), counted
\* from 0, interpolated between the order statistics around that rank.
InterpolatesQuartile(v, xs, k) ==
    LET rank4 == k * (Len(xs) - 1)
        below == OrderStatistic(xs, (rank4 \div 4) + 1)
        above == OrderStatistic(xs, ((rank4 + 3) \div 4) + 1)
        w     == rank4 % 4
        x4    == (4 - w) * below + w * above
    IN ~v.nan /\ 4 * v.cents - x4 \in -2..2

\* C8: Q1, median and Q3 are the linear interpolation between the adjacent
\* order statistics at rank p*(N-1), p = 0.25, 0.5, 0.75, to the hundredth,
\* and the reported IQR is the reported Q3 minus the reported Q1; for the
\* prices 100, 200, 300, 400: Q1 175, median 250, Q3 325, IQR 150, mean
\* 250, minimum 100, maximum 400.
C8_QuartilesInterpolate ==
    ShowsTable =>
        LET rows == TheRender.table
            xs   == PriceColumn(df)
        IN /\ InterpolatesQuartile(rows[4][2], xs, 1)
           /\ InterpolatesQuartile(rows[5][2], xs, 2)
           /\ InterpolatesQuartile(rows[6][2], xs, 3)
           /\ ~rows[9][2].nan
           /\ rows[9][2].cents = rows[6][2].cents - rows[4][2].cents
           /\ xs = <<10000, 20000, 30000, 40000>> =>
                 [i \in {1, 2, 3, 4, 5, 6, 9} |-> rows[i][2]] =
                     [i \in {1, 2, 3, 4, 5, 6, 9} |->
                         Number(CASE i = 1 -> 25000 [] i = 2 -> 10000
                                  [] i = 3 -> 40000 [] i = 4 -> 17500
                                  [] i = 5 -> 25000 [] i = 6 -> 32500
                                  [] i = 9 -> 15000)]

\* The table of the prices 100, 200, 300, 400.
C8_Witness ==
    /\ ShowsTable
    /\ PriceColumn(df) = <<10000, 20000, 30000, 40000>>
    /\ TheRender.table[4][2] = Number(17500)

\* C9: a successful response with an empty array comes out as an
\* unreachable endpoint does: the error message, and no chart.
C9_EmptyArrayAsUnreachable ==
    (Called /\ upstream = Response("array", <<>>)) =>
        output = Returned(<<ErrorDiv>>)

\* C10: whatever the tab and the outcome of the fetch, the callback returns
\* a list of one render: the chart (on 'gold' only), the table (on
\* 'analysis' only) or the error message, never a chart together with a
\* table, never nothing.
C10_ExactlyOneRender ==
    Called =>
        /\ output.kind = "list"
        /\ Len(output.children) = 1
        /\ \/ TheRender.kind = "chart" /\ tab = "gold"
           \/ TheRender.kind = "table" /\ tab = "analysis"
           \/ TheRender.kind = "error"
        /\ TheRender.img = <<>> \/ TheRender.table = <<>>

====
